---- MODULE Spec2Model ----
(***************************************************************************)
(* Model of the TTS gateway (src/gateway): model-name resolution, request  *)
(* forwarding with error translation, streaming negotiation with fallback  *)
(* and backend health aggregation.                                         *)
(*                                                                         *)
(* Values.  An endpoint setting is None, the empty string or a URL.  A     *)
(* backend's behaviour on one call is a record: err says how the transport *)
(* failed ("none" when a response arrived), status and body describe the   *)
(* response.  What a handler gives back is an outcome record:              *)
(*   tag "TTSResponse"   the handler returned a TTSResponse                *)
(*   tag "HTTPException" the handler raised fastapi.HTTPException          *)
(*   tag "Response"      the handler returned a byte-stream Response       *)
(*   tag "Unhandled"     another exception left the handler                *)
(***************************************************************************)
EXTENDS Integers, Sequences, FiniteSets, Bags, TLC

VARIABLES
    settings,         \* the cached Settings: model name -> endpoint setting
    max_retries,      \* Settings.max_retries
    phase,            \* where the lifespan stands: "created", ..., "serving", "stopped"
    http_client,      \* the global shared client: "None", "open" or "closed"
    request_counter,  \* health.request_counter
    ended,            \* history: the requests that called increment_request_count
                      \* and have come to their end
    boot,             \* validate_model_endpoints: its position and its probes
    tasks,            \* the requests suspended in an await, a bag
    last              \* the last request that finished, with what it gave back

vars ==
    <<settings, max_retries, phase, http_client, request_counter, ended, boot, tasks,
      last>>

\* ------------------------------------------------------------------ bounds
MaxRequests == 2

MaxInFlight == 2

\* ------------------------------------------------------------ the registry
None == "<None>"

MODEL_ENDPOINTS == {"kokkoro", "chatterbox"}

ModelOrder == <<"kokkoro", "chatterbox">>

Names == MODEL_ENDPOINTS \cup {"unknownmodel"}

Url(m) == IF m = "kokkoro" THEN "http://kokkoro:8001" ELSE "http://chatterbox:8002"

\* Settings.kokkoro_endpoint / chatterbox_endpoint: Optional[str]; the validator
\* lets None and "" through and requires the http(s) prefix of anything else.
SettingsValues ==
    { s \in [MODEL_ENDPOINTS -> {None, "", Url("kokkoro"), Url("chatterbox")}] :
          \A m \in MODEL_ENDPOINTS : s[m] \in {None, "", Url(m)} }

\* What the environment can hold besides: a value validate_endpoints rejects, so
\* that Settings() raises.
InvalidSettings ==
    { [s EXCEPT !["kokkoro"] = "ftp://kokkoro"] :
          s \in {t \in SettingsValues : t["kokkoro"] = None} }

\* Mutant: `is not None` in place of the truth test.
Truthy_not_none(v) == v # None

\* Python truth of an Optional[str]: `if not endpoint`.
Truthy(v) == v # None /\ v # ""

\* str.startswith
StartsWith(v, prefix) ==
    Len(v) >= Len(prefix) /\ SubSeq(v, 1, Len(prefix)) = prefix

\* Settings.validate_endpoints, over both endpoint fields: `if v and not
\* v.startswith(...)`, a value that is neither None nor "" must start with http://
\* or https://; host and port are not looked at.
SettingsValid(s) ==
    \A m \in DOMAIN s :
        (s[m] # None /\ s[m] # "") =>
            StartsWith(s[m], "http://") \/ StartsWith(s[m], "https://")

\* getattr(settings, f"{model_name}_endpoint", None)
Endpoint(s, m) == IF m \in DOMAIN s THEN s[m] ELSE None

\* Settings.max_retries: int = 3.  The field is read by no code of the gateway,
\* so that its default stands for every value the environment can set; it is a
\* value under which a retry loop, were there one, would show.
MaxRetriesValues == {3}

Texts == {"Hello", "Bye"}

\* Mutant: the model field is a fixed name, not the name of the route.
RequestData_fixed_model(request, model_name) == [text |-> request, model |-> "kokkoro"]

\* request.dict() plus request_data["model"] = model_name
RequestData(request, model_name) == [text |-> request, model |-> model_name]

\* ------------------------------------------------------ backend behaviours
Bodies ==
    { [form |-> "tts",    raw |-> "{tts:a1}",    val |-> "a1"],
      [form |-> "detail", raw |-> "{detail:d1}", val |-> "d1"],
      [form |-> "object", raw |-> "{}",          val |-> ""],
      [form |-> "text",   raw |-> "oops",        val |-> ""],
      [form |-> "empty",  raw |-> "",            val |-> ""] }

NoBody == [form |-> "empty", raw |-> "", val |-> ""]

GenStatuses == {200, 201, 404, 422, 500}

\* The bodies that make a difference for a status: the classification reads the
\* parsed body of a 200 and of a 422, and of any other status only the raw text.
BodiesOf(status) ==
    CASE status = 200 -> {b \in Bodies : b.form \in {"tts", "object", "text"}}
      [] status = 422 -> {b \in Bodies : b.form \in {"detail", "object", "text"}}
      [] status = 201 -> {b \in Bodies : b.form \in {"tts", "empty"}}
      [] OTHER -> {b \in Bodies : b.form \in {"text", "empty"}}

GenBehaviours ==
    { [err |-> e, status |-> 0, body |-> NoBody] :
          e \in {"timeout", "request_error", "exception"} }
    \cup { b \in [err : {"none"}, status : GenStatuses, body : Bodies] :
               b.body \in BodiesOf(b.status) }

\* The streaming call: `loaded` says whether the response object already holds its
\* body when the handler gets it.  httpx sets the body of a streamed response only
\* in read()/aread(), which the handler never calls, so a network transport gives
\* loaded = FALSE; a transport that answers with an in-memory response gives TRUE.
StreamStatuses == {200, 302, 404, 500}

StreamBehaviours ==
    { [err |-> e, status |-> 0, body |-> NoBody, loaded |-> FALSE] :
          e \in {"timeout", "request_error"} }
    \cup { b \in [err : {"none"}, status : StreamStatuses,
                  body : {b \in Bodies : b.form = "text"}, loaded : BOOLEAN] :
               b.status = 404 => ~b.loaded }

\* ---------------------------------------------------------------- outcomes
Arg(text, code) == [text |-> text, code |-> code]

HTTPException(status_code, msg, arg) ==
    [tag |-> "HTTPException", status_code |-> status_code, msg |-> msg, arg |-> arg]

\* An exception that is no HTTPException and that no handler catches: the server
\* answers it with its generic 500.
Unhandled(exc) ==
    [tag |-> "Unhandled", status_code |-> 500, msg |-> exc, arg |-> Arg("", 0)]

TTSResponse(body) ==
    [tag |-> "TTSResponse", status_code |-> 200, msg |-> "", arg |-> Arg(body.val, 0)]

Call(path, endpoint, payload, beh) ==
    [path |-> path, endpoint |-> endpoint, payload |-> payload, beh |-> beh]

\* response.json(): the body parses as a JSON object
JsonOk(body) == body.form \in {"tts", "detail", "object"}

\* TTSResponse(**response_data): the required fields are there and valid
TTSResponseOk(body) == body.form = "tts"

\* ----------------------------------------------------------- the dispatcher
\* Mutant: the except clause for httpx.RequestError comes first and so also
\* catches the timeout, which is a RequestError.
forward_request_request_error_first(endpoint, request_data, beh) ==
    CASE beh.err = "none" ->
           [raised |-> FALSE, exc |-> Unhandled(""), response |-> beh]
      [] beh.err \in {"timeout", "request_error"} ->
           [raised |-> TRUE, response |-> beh,
            exc |-> HTTPException(503, "Cannot reach model endpoint", Arg(endpoint, 0))]
      [] OTHER ->
           [raised |-> TRUE, response |-> beh,
            exc |-> HTTPException(500, "Internal server error", Arg("Exception", 0))]

\* forward_request: the response, or the HTTPException the except clauses raise.
\* httpx.TimeoutException is a RequestError, so the order of the clauses matters.
forward_request(endpoint, request_data, beh) ==
    CASE beh.err = "none" ->
           [raised |-> FALSE, exc |-> Unhandled(""), response |-> beh]
      [] beh.err = "timeout" ->
           [raised |-> TRUE, response |-> beh,
            exc |-> HTTPException(504, "Model endpoint timeout", Arg(endpoint, 0))]
      [] beh.err = "request_error" ->
           [raised |-> TRUE, response |-> beh,
            exc |-> HTTPException(503, "Cannot reach model endpoint", Arg(endpoint, 0))]
      [] OTHER ->
           [raised |-> TRUE, response |-> beh,
            exc |-> HTTPException(500, "Internal server error", Arg("Exception", 0))]

\* Mutant: every other backend status is answered as 502 Bad Gateway.
ClassifyResponse_bad_gateway(response) ==
    CASE response.status = 200 ->
           IF ~JsonOk(response.body)
           THEN HTTPException(500, "Internal server error", Arg("JSONDecodeError", 0))
           ELSE IF ~TTSResponseOk(response.body)
           THEN HTTPException(500, "Internal server error", Arg("ValidationError", 0))
           ELSE TTSResponse(response.body)
      [] response.status = 422 ->
           IF ~JsonOk(response.body)
           THEN HTTPException(500, "Internal server error", Arg("JSONDecodeError", 0))
           ELSE HTTPException(422, "Model validation error",
                    Arg(IF response.body.form = "detail" THEN response.body.val
                        ELSE "Validation error", 0))
      [] OTHER ->
           HTTPException(502, "Model endpoint error",
               IF response.body.raw # "" THEN Arg(response.body.raw, 0)
               ELSE Arg("HTTP", response.status))

\* Mutant: the 422 branch reports the response text, as the else branch does,
\* instead of the "detail" member of the parsed body.
ClassifyResponse_text422(response) ==
    CASE response.status = 200 ->
           IF ~JsonOk(response.body)
           THEN HTTPException(500, "Internal server error", Arg("JSONDecodeError", 0))
           ELSE IF ~TTSResponseOk(response.body)
           THEN HTTPException(500, "Internal server error", Arg("ValidationError", 0))
           ELSE TTSResponse(response.body)
      [] response.status = 422 ->
           HTTPException(422, "Model validation error", Arg(response.body.raw, 0))
      [] OTHER ->
           HTTPException(response.status, "Model endpoint error",
               IF response.body.raw # "" THEN Arg(response.body.raw, 0)
               ELSE Arg("HTTP", response.status))

\* The status classification of generate_tts (the body of its try block after the
\* forward call), with `except HTTPException: raise` and `except Exception` applied.
ClassifyResponse(response) ==
    CASE response.status = 200 ->
           IF ~JsonOk(response.body)
           THEN HTTPException(500, "Internal server error", Arg("JSONDecodeError", 0))
           ELSE IF ~TTSResponseOk(response.body)
           THEN HTTPException(500, "Internal server error", Arg("ValidationError", 0))
           ELSE TTSResponse(response.body)
      [] response.status = 422 ->
           IF ~JsonOk(response.body)
           THEN HTTPException(500, "Internal server error", Arg("JSONDecodeError", 0))
           ELSE HTTPException(422, "Model validation error",
                    Arg(IF response.body.form = "detail" THEN response.body.val
                        ELSE "Validation error", 0))
      [] OTHER ->
           HTTPException(response.status, "Model endpoint error",
               IF response.body.raw # "" THEN Arg(response.body.raw, 0)
               ELSE Arg("HTTP", response.status))

\* Mutant: the endpoint is looked up and tested before the name is.
generate_tts_endpoint_first(model_name, request, s, beh) ==
    IF ~Truthy(Endpoint(s, model_name))
    THEN [outcome |-> HTTPException(503, "Model is not configured, set the variable",
                                    Arg(model_name, 0)),
          calls |-> <<>>]
    ELSE IF model_name \notin MODEL_ENDPOINTS
    THEN [outcome |-> HTTPException(400, "Unknown model, available models",
                                    Arg(model_name, 0)),
          calls |-> <<>>]
    ELSE LET endpoint == Endpoint(s, model_name)
             request_data == RequestData(request, model_name)
             fwd == forward_request(endpoint, request_data, beh)
         IN  [outcome |-> IF fwd.raised THEN fwd.exc ELSE ClassifyResponse(fwd.response),
              calls |-> << Call("/generate", endpoint, request_data, beh) >>]

\* Mutant: without `except HTTPException: raise`, the catch-all clause answers
\* every failure raised in the try block as 500.
generate_tts_catch_all(model_name, request, s, beh) ==
    IF model_name \notin MODEL_ENDPOINTS
    THEN [outcome |-> HTTPException(400, "Unknown model, available models",
                                    Arg(model_name, 0)),
          calls |-> <<>>]
    ELSE IF ~Truthy(Endpoint(s, model_name))
    THEN [outcome |-> HTTPException(503, "Model is not configured, set the variable",
                                    Arg(model_name, 0)),
          calls |-> <<>>]
    ELSE LET endpoint == Endpoint(s, model_name)
             request_data == RequestData(request, model_name)
             fwd == forward_request(endpoint, request_data, beh)
             raised == IF fwd.raised THEN fwd.exc ELSE ClassifyResponse(fwd.response)
         IN  [outcome |-> IF raised.tag = "HTTPException"
                          THEN HTTPException(500, "Internal server error",
                                             Arg("HTTPException", 0))
                          ELSE raised,
              calls |-> << Call("/generate", endpoint, request_data, beh) >>]

\* Mutant: a forward that raised is tried again max_retries times.
generate_tts_retrying(model_name, request, s, beh) ==
    IF model_name \notin MODEL_ENDPOINTS
    THEN [outcome |-> HTTPException(400, "Unknown model, available models",
                                    Arg(model_name, 0)),
          calls |-> <<>>]
    ELSE IF ~Truthy(Endpoint(s, model_name))
    THEN [outcome |-> HTTPException(503, "Model is not configured, set the variable",
                                    Arg(model_name, 0)),
          calls |-> <<>>]
    ELSE LET endpoint == Endpoint(s, model_name)
             request_data == RequestData(request, model_name)
             fwd == forward_request(endpoint, request_data, beh)
             attempts == IF fwd.raised THEN 1 + max_retries ELSE 1
         IN  [outcome |-> IF fwd.raised THEN fwd.exc ELSE ClassifyResponse(fwd.response),
              calls |-> [k \in 1..attempts |->
                            Call("/generate", endpoint, request_data, beh)]]

\* generate_tts: the outcome and the backend calls it made.
generate_tts(model_name, request, s, beh) ==
    IF model_name \notin MODEL_ENDPOINTS
    THEN [outcome |-> HTTPException(400, "Unknown model, available models",
                                    Arg(model_name, 0)),
          calls |-> <<>>]
    ELSE IF ~Truthy(Endpoint(s, model_name))
    THEN [outcome |-> HTTPException(503, "Model is not configured, set the variable",
                                    Arg(model_name, 0)),
          calls |-> <<>>]
    ELSE LET endpoint == Endpoint(s, model_name)
             request_data == RequestData(request, model_name)
             fwd == forward_request(endpoint, request_data, beh)
         IN  [outcome |-> IF fwd.raised THEN fwd.exc ELSE ClassifyResponse(fwd.response),
              calls |-> << Call("/generate", endpoint, request_data, beh) >>]

\* -------------------------------------------------- the streaming negotiator
\* What the except clause of generate_tts_stream does with an HTTPStatusError: it
\* reads e.response.text after the `async with` block has closed the response; on a
\* response whose body was never read that raises httpx.ResponseNotRead.
StreamStatusError(response, fallback) ==
    IF response.status = 404 THEN fallback
    ELSE IF response.loaded
    THEN HTTPException(response.status, "Model endpoint error", Arg(response.body.raw, 0))
    ELSE Unhandled("ResponseNotRead")

\* Response(generate(), media_type="audio/wav", ...): starlette's Response renders
\* its content in the constructor (bytes, or str through .encode), and an async
\* generator is neither, so the constructor raises AttributeError.
StreamingResponse(response) == Unhandled("AttributeError")

\* Mutant: a 404 of the streaming path is reported like any other error status.
StreamBody_no_fallback(response, fallback) ==
    IF response.status \notin 200..299
    THEN HTTPException(response.status, "Model endpoint error", Arg(response.body.raw, 0))
    ELSE StreamingResponse(response)

\* The body of `async with client.stream(...) as response`. raise_for_status()
\* raises HTTPStatusError for every status outside 2xx, a redirect included.
StreamBody(response, fallback) ==
    IF response.status = 404 THEN fallback
    ELSE IF response.status \notin 200..299 THEN StreamStatusError(response, fallback)
    ELSE StreamingResponse(response)

\* Mutant: the streaming call is issued before the endpoint is tested.
generate_tts_stream_call_first(model_name, request, s, sbeh, gbeh) ==
    IF model_name \notin MODEL_ENDPOINTS
    THEN [outcome |-> HTTPException(400, "Unknown model", Arg(model_name, 0)),
          calls |-> <<>>]
    ELSE LET endpoint == Endpoint(s, model_name)
             request_data == RequestData(request, model_name)
             streamCall == Call("/generate/stream", endpoint, request_data, sbeh)
             fallback == generate_tts(model_name, request, s, gbeh)
         IN  IF ~Truthy(endpoint)
             THEN [outcome |-> HTTPException(503, "Model is not configured",
                                             Arg(model_name, 0)),
                   calls |-> <<streamCall>>]
             ELSE IF sbeh.err = "timeout"
             THEN [outcome |-> Unhandled("TimeoutException"), calls |-> <<streamCall>>]
             ELSE IF sbeh.err = "request_error"
             THEN [outcome |-> Unhandled("RequestError"), calls |-> <<streamCall>>]
             ELSE [outcome |-> StreamBody(sbeh, fallback.outcome),
                   calls |-> IF sbeh.status = 404
                             THEN <<streamCall>> \o fallback.calls
                             ELSE <<streamCall>>]

\* Mutant: every error status of the streaming path falls back, not only 404.
generate_tts_stream_fallback_on_error(model_name, request, s, sbeh, gbeh) ==
    IF model_name \notin MODEL_ENDPOINTS
    THEN [outcome |-> HTTPException(400, "Unknown model", Arg(model_name, 0)),
          calls |-> <<>>]
    ELSE IF ~Truthy(Endpoint(s, model_name))
    THEN [outcome |-> HTTPException(503, "Model is not configured", Arg(model_name, 0)),
          calls |-> <<>>]
    ELSE LET endpoint == Endpoint(s, model_name)
             request_data == RequestData(request, model_name)
             streamCall == Call("/generate/stream", endpoint, request_data, sbeh)
             fallback == generate_tts(model_name, request, s, gbeh)
         IN  IF sbeh.err = "timeout"
             THEN [outcome |-> Unhandled("TimeoutException"), calls |-> <<streamCall>>]
             ELSE IF sbeh.err = "request_error"
             THEN [outcome |-> Unhandled("RequestError"), calls |-> <<streamCall>>]
             ELSE IF sbeh.status >= 400
             THEN [outcome |-> fallback.outcome,
                   calls |-> <<streamCall>> \o fallback.calls]
             ELSE [outcome |-> StreamBody(sbeh, fallback.outcome),
                   calls |-> <<streamCall>>]

\* generate_tts_stream: the outcome and the backend calls it made.  Only
\* httpx.HTTPStatusError is caught: a transport error of the streaming call leaves
\* the handler as it is.
generate_tts_stream(model_name, request, s, sbeh, gbeh) ==
    IF model_name \notin MODEL_ENDPOINTS
    THEN [outcome |-> HTTPException(400, "Unknown model", Arg(model_name, 0)),
          calls |-> <<>>]
    ELSE IF ~Truthy(Endpoint(s, model_name))
    THEN [outcome |-> HTTPException(503, "Model is not configured", Arg(model_name, 0)),
          calls |-> <<>>]
    ELSE LET endpoint == Endpoint(s, model_name)
             request_data == RequestData(request, model_name)
             streamCall == Call("/generate/stream", endpoint, request_data, sbeh)
             fallback == generate_tts(model_name, request, s, gbeh)
         IN  IF sbeh.err = "timeout"
             THEN [outcome |-> Unhandled("TimeoutException"), calls |-> <<streamCall>>]
             ELSE IF sbeh.err = "request_error"
             THEN [outcome |-> Unhandled("RequestError"), calls |-> <<streamCall>>]
             ELSE IF sbeh.err = "closed"
             THEN [outcome |-> Unhandled("RuntimeError"), calls |-> <<streamCall>>]
             ELSE [outcome |-> StreamBody(sbeh, fallback.outcome),
                   calls |-> IF sbeh.status = 404
                             THEN <<streamCall>> \o fallback.calls
                             ELSE <<streamCall>>]

\* ------------------------------------------------------------------- health
ProbeStatuses == {200, 204, 404, 503}

ProbeBehaviours ==
    { [err |-> e, status |-> 0] : e \in {"timeout", "connect_error", "exception"} }
    \cup [err : {"none"}, status : ProbeStatuses]

NoProbe == [err |-> "unprobed", status |-> 0]

\* Mutant: only transport errors are caught.
check_model_health_narrow(endpoint, beh) ==
    IF beh.err = "none"
    THEN [raised |-> FALSE, value |-> (beh.status = 200), requests |-> 1]
    ELSE [raised |-> beh.err = "exception", value |-> FALSE, requests |-> 1]

\* Mutant: a result is remembered: once the aggregate was healthy, the prober
\* answers True without looking at the backend's answer.
check_model_health_sticky(endpoint, beh) ==
    IF last.op = "health_check" /\ last.outcome.tag # "Unhandled" /\ last.status = "healthy"
    THEN [raised |-> FALSE, value |-> TRUE, requests |-> 1]
    ELSE IF beh.err = "none"
    THEN [raised |-> FALSE, value |-> (beh.status = 200), requests |-> 1]
    ELSE [raised |-> FALSE, value |-> FALSE, requests |-> 1]

\* check_model_health: one GET {endpoint}/health inside try / except Exception.
\* raised says whether an exception leaves the function, requests how many GETs
\* the call issued.
check_model_health(endpoint, beh) ==
    IF beh.err = "none"
    THEN [raised |-> FALSE, value |-> (beh.status = 200), requests |-> 1]
    ELSE [raised |-> FALSE, value |-> FALSE, requests |-> 1]

\* any(models_status.values()); models_status keeps the insertion order of the dict.
AnyHealthy(models_status) ==
    \E i \in 1..Len(models_status) : models_status[i].healthy

\* Mutant: all() in place of any().
OverallStatus_all(models_status) ==
    IF \A i \in 1..Len(models_status) : models_status[i].healthy
    THEN "healthy" ELSE "degraded"

OverallStatus(models_status) ==
    IF AnyHealthy(models_status) THEN "healthy" ELSE "degraded"

\* The detailed per-model records of models_health_check.
DetailedStatus(models_status, s) ==
    [i \in 1..Len(models_status) |->
        [model      |-> models_status[i].model,
         healthy    |-> models_status[i].healthy,
         endpoint   |-> Endpoint(s, models_status[i].model),
         configured |-> Truthy(Endpoint(s, models_status[i].model))]]

\* Mutant: the name is not checked against the registered names.
single_model_health_check_unchecked(model_name, s, beh) ==
    IF ~Truthy(Endpoint(s, model_name))
    THEN [tag |-> "JSONResponse", status_code |-> 503, healthy |-> FALSE,
          configured |-> FALSE, probes |-> <<>>]
    ELSE LET probe == check_model_health(Endpoint(s, model_name), beh)
         IN  [tag |-> "JSONResponse",
              status_code |-> IF probe.value THEN 200 ELSE 503,
              healthy |-> probe.value, configured |-> TRUE,
              probes |-> [k \in 1..probe.requests |-> beh]]

\* Mutant: the list of names in the single-model query lacks "chatterbox".
single_model_health_check_kokkoro_only(model_name, s, beh) ==
    IF model_name \notin {"kokkoro"}
    THEN [tag |-> "HTTPException", status_code |-> 404, healthy |-> FALSE,
          configured |-> FALSE, probes |-> <<>>]
    ELSE IF ~Truthy(Endpoint(s, model_name))
    THEN [tag |-> "JSONResponse", status_code |-> 503, healthy |-> FALSE,
          configured |-> FALSE, probes |-> <<>>]
    ELSE LET probe == check_model_health(Endpoint(s, model_name), beh)
         IN  IF probe.raised
             THEN [tag |-> "Unhandled", status_code |-> 500, healthy |-> FALSE,
                   configured |-> TRUE, probes |-> [k \in 1..probe.requests |-> beh]]
             ELSE [tag |-> "JSONResponse",
                   status_code |-> IF probe.value THEN 200 ELSE 503,
                   healthy |-> probe.value, configured |-> TRUE,
                   probes |-> [k \in 1..probe.requests |-> beh]]

\* single_model_health_check: the response and the probes it issued.
single_model_health_check(model_name, s, beh) ==
    IF model_name \notin {"kokkoro", "chatterbox"}
    THEN [tag |-> "HTTPException", status_code |-> 404, healthy |-> FALSE,
          configured |-> FALSE, probes |-> <<>>]
    ELSE IF ~Truthy(Endpoint(s, model_name))
    THEN [tag |-> "JSONResponse", status_code |-> 503, healthy |-> FALSE,
          configured |-> FALSE, probes |-> <<>>]
    ELSE LET probe == check_model_health(Endpoint(s, model_name), beh)
         IN  IF probe.raised
             THEN [tag |-> "Unhandled", status_code |-> 500, healthy |-> FALSE,
                   configured |-> TRUE, probes |-> [k \in 1..probe.requests |-> beh]]
             ELSE [tag |-> "JSONResponse",
                   status_code |-> IF probe.value THEN 200 ELSE 503,
                   healthy |-> probe.value, configured |-> TRUE,
                   probes |-> [k \in 1..probe.requests |-> beh]]

\* -------------------------------------------------------------- the machine
\* A backend's behaviour is drawn only for a call that reaches the backend.
Unreached == [err |-> "unreached", status |-> 0, body |-> NoBody, loaded |-> FALSE]

\* A handler suspended in an await.  The event loop holds any number of them, and
\* two requests of the same kind with the same inputs are two coroutines: `tasks`
\* is a bag of these records.
NewTask ==
    [handler |-> "none", stage |-> "", model |-> "", request |-> "", client |-> "None",
     held |-> "None", sbeh |-> Unreached,
     idx |-> 0, awaiting |-> FALSE, probe |-> NoProbe,
     models_status |-> <<>>, events |-> <<>>, requests |-> <<>>, behs |-> <<>>]

InFlight == BagCardinality(tasks)

Suspended == BagToSet(tasks)

NoRequest == [op |-> "none"]

\* A handler keeps the client object it was handed, whatever becomes of the global
\* http_client: `held` says how that object is now, "open" while it is the open
\* global, "closed" once lifespan has closed it, "replaced" when a later run of
\* lifespan has put a new client in the global (nothing closes the earlier one).
ClientClosed(t) == IF t.held = "open" THEN [t EXCEPT !.held = "closed"] ELSE t

ClientReplaced(t) == IF t.held = "open" THEN [t EXCEPT !.held = "replaced"] ELSE t

\* validate_model_endpoints keeps nothing of an answer but the line it logs.
\* `stalled` says that the backend of the pending GET keeps its answer open.
NotBooted == [idx |-> 0, probed |-> <<>>, stalled |-> FALSE]

Init ==
    /\ settings \in SettingsValues \cup InvalidSettings
    /\ max_retries \in MaxRetriesValues
    /\ phase = "created"
    /\ http_client = "None"
    /\ request_counter = 0
    /\ ended = 0
    /\ boot = NotBooted
    /\ tasks = EmptyBag
    /\ last = NoRequest

\* get_settings: Settings() validates the environment on every call that is not
\* served from the cache, and lru_cache does not cache an exception.
get_settings(s) ==
    IF SettingsValid(s)
    THEN [raised |-> FALSE, exc |-> Unhandled("")]
    ELSE [raised |-> TRUE, exc |-> Unhandled("ValidationError")]

\* validate_model_endpoints from the entry b.idx on, as far as the loop runs before
\* the event loop gets control again: without a client it returns at once, entries
\* without endpoint are skipped, and the loop stops suspended in the GET of the
\* first configured entry (b.idx names it), or past the last entry.  On a closed
\* client every GET raises RuntimeError before it is sent, `except Exception`
\* catches it, and the loop runs to its end without being suspended.
RECURSIVE validate_model_endpoints(_, _)
validate_model_endpoints(b, client) ==
    IF client # "open" \/ b.idx > Len(ModelOrder)
    THEN [b EXCEPT !.idx = Len(ModelOrder) + 1]
    ELSE IF Truthy(Endpoint(settings, ModelOrder[b.idx]))
    THEN [b EXCEPT !.probed = Append(@, ModelOrder[b.idx])]
    ELSE validate_model_endpoints([b EXCEPT !.idx = @ + 1], client)

\* The phases in which no run of lifespan is under way.  The application object
\* outlives a run, and a test client or a server restarted in the process runs
\* lifespan on it again.
LifespanIdle == {"created", "stopped", "startup_failed", "startup_cancelled", "aborted"}

\* lifespan as far as it runs at its start: http_client = httpx.AsyncClient(...)
\* replaces whatever the global held (a handler that holds the earlier client goes
\* on with it), settings = get_settings() raises on values
\* the validators reject (nothing catches it, so the statements after it do not
\* run), and validate_model_endpoints runs to its first GET, or to its end and
\* then lifespan reaches its yield.
LifespanStartup ==
    /\ phase \in LifespanIdle
    /\ http_client' = "open"
    /\ IF get_settings(settings).raised
       THEN phase' = "startup_failed" /\ boot' = NotBooted
       ELSE LET b == validate_model_endpoints([NotBooted EXCEPT !.idx = 1], "open")
            IN  /\ boot' = b
                /\ phase' = IF b.idx > Len(ModelOrder) THEN "serving" ELSE "validating"
    /\ tasks' = BagOfAll(ClientReplaced, tasks)
    /\ UNCHANGED <<settings, max_retries, request_counter, ended, last>>

\* The GET {endpoint}/health of the startup validation ends, by an answer of any
\* status or by an exception (the timeout of 10 seconds for the connection and for
\* each read is one), inside try / except Exception: the end is only logged, and
\* the loop goes on to the GET of the next configured entry, or to its end, where
\* lifespan reaches its yield and the application serves.
ValidateEndpoint(beh) ==
    /\ phase = "validating"
    /\ ~boot.stalled
    /\ LET b == validate_model_endpoints([boot EXCEPT !.idx = @ + 1], http_client)
       IN  /\ boot' = b
           /\ phase' = IF b.idx > Len(ModelOrder) THEN "serving" ELSE phase
    /\ UNCHANGED <<settings, max_retries, http_client, request_counter,
                   ended, tasks, last>>

\* The backend of the pending GET keeps its answer open: it accepts the connection
\* and sends a byte of its response now and then.  timeout=10.0 bounds the
\* connection and each read, not the call, so no exception ends the GET and
\* validate_model_endpoints stays suspended in it.
ValidateStalls ==
    /\ phase = "validating"
    /\ ~boot.stalled
    /\ boot' = [boot EXCEPT !.stalled = TRUE]
    /\ UNCHANGED <<settings, max_retries, phase, http_client, request_counter,
                   ended, tasks, last>>

\* The server cancels the lifespan task while validate_model_endpoints is suspended
\* in its GET.  asyncio.CancelledError is a BaseException, so `except Exception`
\* does not catch it: it leaves validate_model_endpoints and lifespan, the
\* statements after the yield never run and the client stays open.
ValidateCancelled ==
    /\ phase = "validating"
    /\ phase' = "startup_cancelled"
    /\ boot' = NotBooted
    /\ UNCHANGED <<settings, max_retries, http_client, request_counter,
                   ended, tasks, last>>

\* lifespan, after the yield: normal shutdown.  Nothing waits for the handlers that
\* are suspended in a backend call: the client they hold is closed under them.
LifespanShutdown ==
    /\ phase = "serving"
    /\ http_client' = IF http_client # "None" THEN "closed" ELSE http_client
    /\ tasks' = IF http_client # "None" THEN BagOfAll(ClientClosed, tasks) ELSE tasks
    /\ phase' = "stopped"
    /\ UNCHANGED <<settings, max_retries, request_counter, ended, boot, last>>

\* An exception is delivered to lifespan at its yield (the server's lifespan task
\* fails or is cancelled): the generator has no try/finally, so the exception
\* leaves it and the statements after the yield do not run.
LifespanAbort ==
    /\ phase = "serving"
    /\ phase' = "aborted"
    /\ UNCHANGED <<settings, max_retries, http_client, request_counter, ended,
                   boot, tasks, last>>

\* get_http_client: `not http_client` is true for None only; a client object is
\* truthy, open or closed.
get_http_client(client) ==
    IF client = "None"
    THEN [raised |-> TRUE,
          exc |-> HTTPException(503, "HTTP client not available", Arg("", 0))]
    ELSE [raised |-> FALSE, exc |-> Unhandled("")]

\* The dependencies of the two /tts routes, resolved in the order of the
\* parameters: settings = Depends(get_settings), then client =
\* Depends(get_http_client).  The first one that raises ends the request and the
\* handler is not called.
Dependencies(s, client) ==
    LET ds == get_settings(s)
        dc == get_http_client(client)
    IN  IF ds.raised THEN [raised |-> TRUE, op |-> "get_settings", exc |-> ds.exc]
        ELSE IF dc.raised
        THEN [raised |-> TRUE, op |-> "get_http_client", exc |-> dc.exc]
        ELSE [raised |-> FALSE, op |-> "", exc |-> Unhandled("")]

\* The handler gets as far as a backend call for this model name.
Reaches(model_name) ==
    model_name \in MODEL_ENDPOINTS /\ Truthy(Endpoint(settings, model_name))

\* A closed client raises RuntimeError in send(), before anything reaches the
\* backend and before the handler is suspended.
ClosedClient == [err |-> "closed", status |-> 0, body |-> NoBody, loaded |-> FALSE]

\* What a /tts request that ended leaves behind.
Finished(op, model_name, request, r, client) ==
    [op |-> op, model |-> model_name, request |-> request,
     outcome |-> r.outcome, calls |-> r.calls, client |-> client]

\* A request of a route that declares settings = Depends(get_settings) arrives.
\* get_settings is a plain function, so the dependency is run in a worker thread
\* and the request's task is suspended before anything of the handler has run; the
\* application object does this in every phase of the lifespan.  What the request
\* names and carries is not read before the handler runs, and is drawn there.
Arrive(handler) ==
    /\ InFlight < MaxInFlight
    /\ tasks' = tasks (+) SetToBag({[NewTask EXCEPT
                    !.handler = handler, !.stage = "depends"]})
    /\ UNCHANGED <<settings, max_retries, boot, phase, http_client, request_counter,
                   ended, last>>

\* The request t is back from the worker thread.
Arrived(t, handler) == t \in Suspended /\ t.handler = handler /\ t.stage = "depends"

\* POST /tts/{model_name}, from the worker thread up to its await: the outcome of
\* the dependencies, with the client as it is now, then generate_tts as far as
\* `await client.post`, where the handler is suspended.  It never gets there for a
\* name it rejects, and a closed client raises at once.
GenerateTtsStart(t, model_name, request) ==
    /\ Arrived(t, "generate_tts")
    /\ LET dep == Dependencies(settings, http_client)
           now == IF http_client = "closed" THEN ClosedClient ELSE Unreached
           r == generate_tts(model_name, request, settings, now)
       IN  IF dep.raised
           THEN /\ last' = Finished(dep.op, model_name, request,
                                    [outcome |-> dep.exc, calls |-> <<>>], http_client)
                /\ tasks' = tasks (-) SetToBag({t})
           ELSE IF ~Reaches(model_name) \/ http_client = "closed"
           THEN /\ last' = Finished("generate_tts", model_name, request, r, http_client)
                /\ tasks' = tasks (-) SetToBag({t})
           ELSE /\ tasks' = (tasks (-) SetToBag({t})) (+) SetToBag({[t EXCEPT
                                !.model = model_name, !.request = request,
                                !.stage = "post", !.client = http_client,
                                !.awaiting = TRUE]})
                /\ last' = last
    /\ UNCHANGED <<settings, max_retries, boot, phase, http_client, request_counter,
                   ended>>

\* POST /tts/{model_name}: the awaited client.post ends, by an answer or by an
\* exception, and generate_tts runs to its end.  A client closed in the meantime
\* cuts the call at whatever point it had reached.
GenerateTtsReturn(t, beh) ==
    /\ t \in Suspended
    /\ t.handler = "generate_tts"
    /\ t.stage = "post"
    /\ last' = Finished("generate_tts", t.model, t.request,
                        generate_tts(t.model, t.request, settings, beh), t.client)
    /\ tasks' = tasks (-) SetToBag({t})
    /\ UNCHANGED <<settings, max_retries, boot, phase, http_client, request_counter,
                   ended>>

\* POST /tts/{model_name}/stream, from the worker thread up to its await: the
\* outcome of the dependencies, then generate_tts_stream as far as
\* `async with client.stream(...)`.
GenerateTtsStreamStart(t, model_name, request) ==
    /\ Arrived(t, "generate_tts_stream")
    /\ LET dep == Dependencies(settings, http_client)
           now == IF http_client = "closed" THEN ClosedClient ELSE Unreached
           r == generate_tts_stream(model_name, request, settings, now, Unreached)
       IN  IF dep.raised
           THEN /\ last' = Finished(dep.op, model_name, request,
                                    [outcome |-> dep.exc, calls |-> <<>>], http_client)
                /\ tasks' = tasks (-) SetToBag({t})
           ELSE IF ~Reaches(model_name) \/ http_client = "closed"
           THEN /\ last' = Finished("generate_tts_stream", model_name, request, r,
                                    http_client)
                /\ tasks' = tasks (-) SetToBag({t})
           ELSE /\ tasks' = (tasks (-) SetToBag({t})) (+) SetToBag({[t EXCEPT
                                !.model = model_name, !.request = request,
                                !.stage = "stream", !.client = http_client,
                                !.held = http_client, !.awaiting = TRUE]})
                /\ last' = last
    /\ UNCHANGED <<settings, max_retries, boot, phase, http_client, request_counter,
                   ended>>

\* The streaming call is answered.  On a 404 the handler calls generate_tts with
\* the client it holds and is suspended again, in the POST of the fallback, unless
\* that client was closed in the meantime (then client.post raises at once); on
\* every other answer it runs to its end.
GenerateTtsStreamAnswer(t, sbeh) ==
    /\ t \in Suspended
    /\ t.handler = "generate_tts_stream"
    /\ t.stage = "stream"
    /\ IF sbeh.err = "none" /\ sbeh.status = 404 /\ t.held # "closed"
       THEN /\ tasks' = (tasks (-) SetToBag({t}))
                            (+) SetToBag({[t EXCEPT !.stage = "fallback", !.sbeh = sbeh,
                                                   !.held = "None"]})
            /\ last' = last
       ELSE /\ tasks' = tasks (-) SetToBag({t})
            /\ last' = Finished("generate_tts_stream", t.model, t.request,
                                generate_tts_stream(t.model, t.request, settings, sbeh,
                                    IF sbeh.err = "none" /\ sbeh.status = 404
                                    THEN ClosedClient ELSE Unreached),
                                t.client)
    /\ UNCHANGED <<settings, max_retries, boot, phase, http_client, request_counter,
                   ended>>

\* The POST of the fallback ends and its outcome is the outcome of the request.
GenerateTtsStreamFallbackReturn(t, gbeh) ==
    /\ t \in Suspended
    /\ t.handler = "generate_tts_stream"
    /\ t.stage = "fallback"
    /\ last' = Finished("generate_tts_stream", t.model, t.request,
                        generate_tts_stream(t.model, t.request, settings, t.sbeh, gbeh),
                        t.client)
    /\ tasks' = tasks (-) SetToBag({t})
    /\ UNCHANGED <<settings, max_retries, boot, phase, http_client, request_counter,
                   ended>>

\* What a request leaves behind when get_settings raises: every route that
\* declares settings = Depends(get_settings) answers 500 before its handler runs.
SettingsRefusal(route) ==
    [op |-> "get_settings", route |-> route, outcome |-> get_settings(settings).exc]

\* GET /health/models/{model_name}, from the worker thread up to its await: an
\* unregistered name and a model without endpoint are answered at once.
SingleModelHealthCheckStart(t, model_name) ==
    /\ Arrived(t, "single_model_health_check")
    /\ IF get_settings(settings).raised
       THEN /\ last' = SettingsRefusal("single_model_health_check")
            /\ tasks' = tasks (-) SetToBag({t})
       ELSE IF ~Reaches(model_name)
       THEN /\ last' = [op |-> "single_model_health_check", model |-> model_name,
                        response |-> single_model_health_check(model_name, settings,
                                                               Unreached)]
            /\ tasks' = tasks (-) SetToBag({t})
       ELSE /\ tasks' = (tasks (-) SetToBag({t})) (+) SetToBag({[t EXCEPT
                            !.model = model_name, !.stage = "probe", !.awaiting = TRUE]})
            /\ last' = last
    /\ UNCHANGED <<settings, max_retries, boot, phase, http_client, request_counter,
                   ended>>

\* GET /health/models/{model_name}: the awaited check_model_health returns.
SingleModelHealthCheckReturn(t, beh) ==
    /\ t \in Suspended
    /\ t.handler = "single_model_health_check"
    /\ t.stage = "probe"
    /\ last' = [op |-> "single_model_health_check", model |-> t.model,
                response |-> single_model_health_check(t.model, settings, beh)]
    /\ tasks' = tasks (-) SetToBag({t})
    /\ UNCHANGED <<settings, max_retries, boot, phase, http_client, request_counter,
                   ended>>

\* Mutant: an increment made while another handler is suspended in an await is
\* overwritten when that handler resumes (a lost update).
increment_request_count_lost(counter) ==
    IF \E t \in Suspended : t.awaiting THEN counter ELSE counter + 1

\* increment_request_count
increment_request_count(counter) == counter + 1

\* GET /health/quick: no dependency and no await, so the handler runs in one step
\* of the event loop, in every phase of the lifespan and also while other handlers
\* are suspended.
QuickHealthCheck ==
    /\ request_counter < MaxRequests
    /\ request_counter' = increment_request_count(request_counter)
    /\ ended' = ended + 1
    /\ last' = [op |-> "quick_health_check",
                outcome |-> [tag |-> "JSONResponse", status_code |-> 200],
                status |-> "ok"]
    /\ UNCHANGED <<settings, max_retries, boot, phase, http_client, tasks>>

\* The two handlers that await get_models_status.
Aggregating(t) == t.handler \in {"health_check", "models_health_check"}

\* Mutant: an entry without endpoint is recorded True.
GetModelsStatusUnconfigured_true(t) ==
    [t EXCEPT !.models_status =
                  Append(@, [model |-> ModelOrder[t.idx], healthy |-> TRUE]),
              !.idx = @ + 1]

\* get_models_status, else branch: the entry has no endpoint and is recorded False.
GetModelsStatusUnconfigured(t) ==
    [t EXCEPT !.models_status =
                  Append(@, [model |-> ModelOrder[t.idx], healthy |-> FALSE]),
              !.idx = @ + 1]

\* get_models_status, if branch: check_model_health is called and awaited; the
\* coroutine issues its GET and the handler is suspended until it returns.
ProbeStart(t) ==
    [t EXCEPT !.awaiting = TRUE,
              !.events = Append(@, [ev |-> "start", model |-> ModelOrder[t.idx]])]

\* get_models_status from the entry t.idx on, as far as the loop runs before the
\* event loop gets control again: entries without endpoint are recorded on the
\* way, and the loop stops suspended in the probe of the first configured entry,
\* or past the last entry.
RECURSIVE get_models_status(_)
get_models_status(t) ==
    IF t.idx > Len(ModelOrder) THEN t
    ELSE IF Truthy(Endpoint(settings, ModelOrder[t.idx])) THEN ProbeStart(t)
    ELSE get_models_status(GetModelsStatusUnconfigured(t))

\* health_check after get_models_status: the overall status and the response,
\* which reads the counter as it stands when the response is built.
health_check(t, counter) ==
    [op |-> "health_check",
     outcome |-> [tag |-> "HealthResponse", status_code |-> 200],
     status |-> OverallStatus(t.models_status),
     request_count |-> counter,
     models |-> t.models_status,
     behs |-> t.behs,
     events |-> t.events,
     requests |-> t.requests]

\* models_health_check after get_models_status.
models_health_check(t) ==
    LET detailed == DetailedStatus(t.models_status, settings)
    IN  [op |-> "models_health_check",
         outcome |-> [tag |-> "dict", status_code |-> 200],
         models |-> detailed,
         total_healthy |->
             Cardinality({i \in 1..Len(detailed) : detailed[i].healthy}),
         total_configured |->
             Cardinality({i \in 1..Len(detailed) : detailed[i].configured}),
         behs |-> t.behs,
         events |-> t.events,
         requests |-> t.requests]

\* GET /health/, from the worker thread as far as it runs: the outcome of the
\* dependency, the increment of the counter, then get_models_status.  With no
\* configured backend nothing is awaited and the response is built in the same
\* step.
HealthCheckStart(t) ==
    /\ Arrived(t, "health_check")
    /\ IF get_settings(settings).raised
       THEN /\ last' = SettingsRefusal("health_check")
            /\ tasks' = tasks (-) SetToBag({t})
            /\ UNCHANGED <<request_counter, ended>>
       ELSE LET u == get_models_status([t EXCEPT !.stage = "", !.idx = 1])
            IN  /\ request_counter < MaxRequests
                /\ request_counter' = increment_request_count(request_counter)
                /\ IF u.awaiting
                   THEN /\ tasks' = (tasks (-) SetToBag({t})) (+) SetToBag({u})
                        /\ last' = last
                        /\ ended' = ended
                   ELSE /\ tasks' = tasks (-) SetToBag({t})
                        /\ last' = health_check(u, request_counter')
                        /\ ended' = ended + 1
    /\ UNCHANGED <<settings, max_retries, boot, phase, http_client>>

\* GET /health/stats: reads the counter, writes nothing.
ServiceStats ==
    /\ last' = [op |-> "service_stats",
                outcome |-> [tag |-> "dict", status_code |-> 200],
                total_requests |-> request_counter]
    /\ UNCHANGED <<settings, max_retries, boot, phase, http_client, request_counter,
                   ended, tasks>>

\* Mutant: the detailed models query counts as a request too.
ModelsHealthCheckStart_counting(t) ==
    /\ Arrived(t, "models_health_check")
    /\ IF get_settings(settings).raised
       THEN /\ last' = SettingsRefusal("models_health_check")
            /\ tasks' = tasks (-) SetToBag({t})
            /\ UNCHANGED <<request_counter, ended>>
       ELSE LET u == get_models_status([t EXCEPT !.stage = "", !.idx = 1])
            IN  /\ request_counter < MaxRequests
                /\ request_counter' = increment_request_count(request_counter)
                /\ ended' = ended
                /\ IF u.awaiting
                   THEN /\ tasks' = (tasks (-) SetToBag({t})) (+) SetToBag({u})
                        /\ last' = last
                   ELSE /\ tasks' = tasks (-) SetToBag({t})
                        /\ last' = models_health_check(u)
    /\ UNCHANGED <<settings, max_retries, boot, phase, http_client>>

\* GET /health/models, from the worker thread as far as it runs: the outcome of the
\* dependency, then get_models_status.
ModelsHealthCheckStart(t) ==
    /\ Arrived(t, "models_health_check")
    /\ IF get_settings(settings).raised
       THEN /\ last' = SettingsRefusal("models_health_check")
            /\ tasks' = tasks (-) SetToBag({t})
       ELSE LET u == get_models_status([t EXCEPT !.stage = "", !.idx = 1])
            IN  IF u.awaiting
                THEN /\ tasks' = (tasks (-) SetToBag({t})) (+) SetToBag({u})
                     /\ last' = last
                ELSE /\ tasks' = tasks (-) SetToBag({t})
                     /\ last' = models_health_check(u)
    /\ UNCHANGED <<settings, max_retries, boot, phase, http_client, request_counter,
                   ended>>

\* The awaited check_model_health returns, its result is stored in the dict and
\* get_models_status goes on: to the probe of the next configured entry, where the
\* handler is suspended again, or to its end, and then the handler builds its
\* response.
ProbeReturn(t, beh) ==
    /\ t \in Suspended
    /\ Aggregating(t)
    /\ t.awaiting
    /\ LET m == ModelOrder[t.idx]
           r == check_model_health(Endpoint(settings, m), beh)
           stored == [t EXCEPT
                         !.awaiting = FALSE,
                         !.probe = beh,
                         !.behs = Append(@, [model |-> m, beh |-> beh]),
                         !.models_status = Append(@, [model |-> m, healthy |-> r.value]),
                         !.events = Append(@, [ev |-> "end", model |-> m]),
                         !.requests = @ \o [k \in 1..r.requests |-> m],
                         !.idx = @ + 1]
           u == get_models_status(stored)
       IN  IF r.raised
           THEN /\ tasks' = tasks (-) SetToBag({t})
                /\ last' = [op |-> t.handler, outcome |-> Unhandled("Exception"),
                            events |-> t.events,
                            requests |-> t.requests \o [k \in 1..r.requests |-> m]]
                /\ ended' = IF t.handler = "health_check" THEN ended + 1 ELSE ended
           ELSE IF u.awaiting
           THEN /\ tasks' = (tasks (-) SetToBag({t})) (+) SetToBag({u})
                /\ last' = last
                /\ ended' = ended
           ELSE /\ tasks' = tasks (-) SetToBag({t})
                /\ last' = IF u.handler = "health_check"
                           THEN health_check(u, request_counter)
                           ELSE models_health_check(u)
                /\ ended' = IF u.handler = "health_check" THEN ended + 1 ELSE ended
    /\ UNCHANGED <<settings, max_retries, boot, phase, http_client, request_counter>>

Lifespan ==
    \/ LifespanStartup
    \/ \E b \in ProbeBehaviours : ValidateEndpoint(b)
    \/ ValidateCancelled
    \/ LifespanShutdown
    \/ LifespanAbort

Dispatch ==
    \/ Arrive("generate_tts")
    \/ \E t \in Suspended, m \in Names, r \in Texts : GenerateTtsStart(t, m, r)
    \/ \E t \in Suspended, b \in GenBehaviours : GenerateTtsReturn(t, b)

Stream ==
    \/ Arrive("generate_tts_stream")
    \/ \E t \in Suspended, m \in Names, r \in Texts : GenerateTtsStreamStart(t, m, r)
    \/ \E t \in Suspended, sb \in StreamBehaviours : GenerateTtsStreamAnswer(t, sb)
    \/ \E t \in Suspended, gb \in GenBehaviours : GenerateTtsStreamFallbackReturn(t, gb)

SingleHealth ==
    \/ Arrive("single_model_health_check")
    \/ \E t \in Suspended, m \in Names : SingleModelHealthCheckStart(t, m)
    \/ \E t \in Suspended, b \in ProbeBehaviours : SingleModelHealthCheckReturn(t, b)

Aggregation ==
    \/ QuickHealthCheck
    \/ ServiceStats
    \/ request_counter < MaxRequests /\ Arrive("health_check")
    \/ \E t \in Suspended : HealthCheckStart(t)
    \/ Arrive("models_health_check")
    \/ \E t \in Suspended : ModelsHealthCheckStart(t)
    \/ \E t \in Suspended, b \in ProbeBehaviours : ProbeReturn(t, b)

Next == Lifespan \/ ValidateStalls \/ Dispatch \/ Stream \/ SingleHealth \/ Aggregation

Spec == Init /\ [][Next]_vars

\* The dispatcher and the streaming negotiator alone: they read the settings and
\* the backend's answers and write nothing the health handlers read.  A request
\* sees no difference between a validation whose GET is pending and one whose GET
\* is stalled, so ValidateStalls is left to the specification of the startup.
NextDispatch == Lifespan \/ Dispatch \/ Stream

SpecDispatch == Init /\ [][NextDispatch]_vars

\* The health handlers alone.
NextHealth == Lifespan \/ SingleHealth \/ Aggregation

SpecHealth == Init /\ [][NextHealth]_vars

\* The health queries that report per-model records and leave the counter alone:
\* the single-model query and the detailed models view.
ModelsAggregation ==
    \/ Arrive("models_health_check")
    \/ \E t \in Suspended : ModelsHealthCheckStart(t)
    \/ \E t \in Suspended, b \in ProbeBehaviours : ProbeReturn(t, b)

NextRegistry == Lifespan \/ SingleHealth \/ ModelsAggregation

SpecRegistry == Init /\ [][NextRegistry]_vars

\* The lifespan, with the one route that needs neither a dependency nor an await,
\* the liveness query a supervisor polls while the gateway starts.  The event loop
\* runs the lifespan task whenever it can go on, and a GET whose backend does not
\* keep the answer open ends, by the answer, by an error or by a timeout.  Nothing
\* obliges the server to cancel the startup, and nothing ends a GET that is stalled.
NextStartup == Lifespan \/ ValidateStalls \/ QuickHealthCheck

SpecStartup ==
    /\ Init
    /\ [][NextStartup]_vars
    /\ WF_vars(\E b \in ProbeBehaviours : ValidateEndpoint(b))

\* =================================================================== claims
\* The vocabulary of the claims, stated apart from the code's definitions.
Registered == {"kokkoro", "chatterbox"}

Configured(m) == m \in Registered /\ settings[m] \notin {None, ""}

IsDispatch == last.op = "generate_tts"

IsStream == last.op = "generate_tts_stream"

IsSingle == last.op = "single_model_health_check"

\* The failure kinds of the error taxonomy, read off an outcome.
InvalidModel(o) == o.tag = "HTTPException" /\ o.status_code = 400

BackendUnavailable(o) == o.tag = "HTTPException" /\ o.status_code = 503

\* The streaming call got a response with this status.
StreamAnswered == IsStream /\ Len(last.calls) >= 1 /\ last.calls[1].beh.err = "none"

\* C1: dispatch of a name outside the registered set ends in InvalidModel (400); of
\* a registered name without endpoint in BackendUnavailable (503); the name check
\* comes first, so an unknown name never gives BackendUnavailable.
C1_UnknownThenUnconfigured ==
    IsDispatch =>
        /\ last.model \notin Registered =>
               InvalidModel(last.outcome) /\ ~BackendUnavailable(last.outcome)
        /\ (last.model \in Registered /\ ~Configured(last.model)) =>
               BackendUnavailable(last.outcome)

C1_Witness ==
    /\ IsDispatch
    /\ last.model = "unknownmodel"
    /\ \A m \in Registered : ~Configured(m)
    /\ last.outcome.status_code = 400

\* C2: every call of generate_tts increases request_count by exactly 1, whatever
\* its outcome.
C2_DispatchCounts ==
    [][(last' # last /\ last'.op = "generate_tts")
          => request_counter' = request_counter + 1]_vars

\* C3: every streaming request ends in a byte stream handed to the caller or in
\* one dispatch outcome (a TTSResponse or one classified failure), for every
\* behaviour of the backend on the streaming path.
C3_OneTerminalOutcome ==
    IsStream => last.outcome.tag \in {"Response", "TTSResponse", "HTTPException"}

\* The kind of an outcome: what the caller can tell apart without reading the text.
Kind(o) == [tag |-> o.tag, status_code |-> o.status_code]

\* The kind of outcome a direct dispatch has to give for a behaviour of the backend
\* on the non-streaming path, in the terms of the error taxonomy: Timeout (504),
\* BackendUnavailable (503), Internal (500) for any other exception of the call and
\* for a 200 or 422 body that cannot be used, ValidationError (422), BackendError
\* with the backend's status, and Success for a 200 with a complete TTS result.
DispatchKind(beh) ==
    CASE beh.err = "timeout" -> [tag |-> "HTTPException", status_code |-> 504]
      [] beh.err = "request_error" -> [tag |-> "HTTPException", status_code |-> 503]
      [] beh.err \notin {"none", "timeout", "request_error"} ->
           [tag |-> "HTTPException", status_code |-> 500]
      [] beh.err = "none" /\ beh.status = 200 ->
           IF beh.body.form = "tts"
           THEN [tag |-> "TTSResponse", status_code |-> 200]
           ELSE [tag |-> "HTTPException", status_code |-> 500]
      [] beh.err = "none" /\ beh.status = 422 ->
           IF beh.body.form \in {"tts", "detail", "object"}
           THEN [tag |-> "HTTPException", status_code |-> 422]
           ELSE [tag |-> "HTTPException", status_code |-> 500]
      [] OTHER -> [tag |-> "HTTPException", status_code |-> beh.status]

\* C4: when the streaming path answers 404, the outcome of generate_tts_stream is
\* the outcome of generate_tts for the same name and request, whatever the backend
\* does on the non-streaming path: the negotiation made one call to the
\* non-streaming path and its outcome is what the dispatcher gives for that call,
\* and the two routes, the direct dispatch and the fallback, end in the same kind
\* of outcome for the same behaviour of the backend.
C4_FallbackEqualsDispatch ==
    /\ (StreamAnswered /\ last.calls[1].beh.status = 404) =>
           /\ Len(last.calls) = 2
           /\ last.calls[2].path = "/generate"
           /\ last.outcome =
                  generate_tts(last.model, last.request, settings,
                               last.calls[2].beh).outcome
           /\ Kind(last.outcome) = DispatchKind(last.calls[2].beh)
    /\ (IsDispatch /\ Len(last.calls) = 1) =>
           Kind(last.outcome) = DispatchKind(last.calls[1].beh)

C4_Witness ==
    /\ StreamAnswered
    /\ last.calls[1].beh.status = 404
    /\ Len(last.calls) = 2
    /\ last.calls[2].beh.status = 200
    /\ last.outcome.tag = "TTSResponse"
    /\ last.outcome.arg.text = "a1"

\* C5: when the streaming attempt fails with an error status other than 404,
\* generate_tts_stream ends in a BackendError failure carrying the backend's
\* status, and the non-streaming path is not called.
C5_StreamErrorIsBackendError ==
    (StreamAnswered /\ last.calls[1].beh.status >= 400
                    /\ last.calls[1].beh.status # 404) =>
        /\ last.outcome.tag = "HTTPException"
        /\ last.outcome.status_code = last.calls[1].beh.status
        /\ Len(last.calls) = 1

\* ------------------------------------------------------------ health claims
IsAggregate ==
    /\ last.op \in {"health_check", "models_health_check"}
    /\ last.outcome.tag # "Unhandled"

\* How often x occurs in the sequence seq.
Count(seq, x) == Cardinality({i \in 1..Len(seq) : seq[i] = x})

\* A probe behaviour that is a failure mode of the liveness call.
ProbeFailed(b) == b.err # "none" \/ b.status < 200 \/ b.status >= 300

\* C6: in every aggregate health result the overall status is "healthy" if and
\* only if at least one backend's record is healthy, and "degraded" otherwise.
C6_HealthyIffAnyHealthy ==
    last.op = "health_check" /\ last.outcome.tag # "Unhandled" =>
        /\ last.status \in {"healthy", "degraded"}
        /\ last.status = "healthy" <=>
               \E i \in 1..Len(last.models) : last.models[i].healthy

C6_Witness ==
    /\ last.op = "health_check"
    /\ last.status = "healthy"
    /\ Len(last.models) = 2
    /\ \E i \in 1..2 : ~last.models[i].healthy
    /\ \A m \in Registered : Configured(m)

\* C7: one aggregation run issues no probe to an unconfigured backend and exactly
\* one to each configured backend, and records an unconfigured entry as not healthy.
C7_ProbesOnlyConfigured ==
    /\ \A t \in Suspended :
           \A m \in Registered : ~Configured(m) => Count(t.requests, m) = 0
    /\ IsAggregate =>
          /\ \A m \in Registered :
                 Count(last.requests, m) = IF Configured(m) THEN 1 ELSE 0
          /\ Len(last.requests) = Cardinality({m \in Registered : Configured(m)})
          /\ \A m \in Registered : ~Configured(m) =>
                 \E i \in 1..Len(last.models) :
                     last.models[i].model = m /\ ~last.models[i].healthy

C7_Witness ==
    /\ last.op = "health_check"
    /\ Len(last.requests) = 1
    /\ Configured("chatterbox")
    /\ settings["kokkoro"] = ""

\* C8: in one aggregation run the probe of every configured backend is started
\* before the result of any probe is awaited.
C8_ProbesStartTogether ==
    \A t \in Suspended :
        (/\ t.handler \in {"health_check", "models_health_check"}
         /\ t.awaiting \/ \E i \in 1..Len(t.events) : t.events[i].ev = "end") =>
            \A m \in Registered : Configured(m) =>
                \E j \in 1..Len(t.events) :
                    t.events[j] = [ev |-> "start", model |-> m]

\* An aggregation run in flight, one of whose probes has returned.
Probed(t) ==
    t.handler \in {"health_check", "models_health_check"} /\ t.probe # NoProbe

\* The backend whose probe returned last in the run t.
LastProbed(t) ==
    LET IsEnd(e) == e.ev = "end"
        ends == SelectSeq(t.events, IsEnd)
    IN  ends[Len(ends)].model

\* C9: check_model_health never raises; on every failure mode of the probe call it
\* returns false; and one call issues exactly one liveness request.
C9_ProberNeverRaises ==
    /\ last.op \in {"health_check", "models_health_check"} =>
          /\ last.outcome.tag # "Unhandled"
          /\ Len(last.requests) = Len(last.behs)
          /\ \A i \in 1..Len(last.behs) : ProbeFailed(last.behs[i].beh) =>
                 \A j \in 1..Len(last.models) :
                     last.models[j].model = last.behs[i].model =>
                         ~last.models[j].healthy
    /\ \A t \in Suspended : Probed(t) =>
          /\ Len(t.requests) = Count(t.events, [ev |-> "end", model |-> "kokkoro"])
                              + Count(t.events, [ev |-> "end", model |-> "chatterbox"])
          /\ ProbeFailed(t.probe) =>
                 \A i \in 1..Len(t.models_status) :
                     t.models_status[i].model = LastProbed(t) =>
                         ~t.models_status[i].healthy
    /\ (IsSingle /\ Configured(last.model)) =>
          /\ last.response.tag = "JSONResponse"
          /\ Len(last.response.probes) = 1
          /\ ProbeFailed(last.response.probes[1]) => ~last.response.healthy

C9_Witness ==
    /\ IsSingle
    /\ Configured(last.model)
    /\ Len(last.response.probes) = 1
    /\ last.response.probes[1].err = "exception"
    /\ ~last.response.healthy

\* C10: the single-model health query answers 404 for a name outside the
\* registered set, 503 with configured = false and no probe for a registered name
\* without endpoint, and for a configured backend 200 exactly when the probe
\* reports healthy and 503 otherwise.
C10_SingleModelStatus ==
    IsSingle =>
        /\ last.model \notin Registered =>
               last.response.status_code = 404 /\ last.response.probes = <<>>
        /\ (last.model \in Registered /\ ~Configured(last.model)) =>
               /\ last.response.status_code = 503
               /\ ~last.response.configured
               /\ last.response.probes = <<>>
        /\ Configured(last.model) =>
               /\ last.response.configured
               /\ last.response.status_code =
                      IF last.response.healthy THEN 200 ELSE 503
               /\ last.response.healthy <=>
                      \E i \in 1..Len(last.response.probes) :
                          /\ last.response.probes[i].err = "none"
                          /\ last.response.probes[i].status = 200

C10_Witness ==
    /\ IsSingle
    /\ Configured(last.model)
    /\ last.response.status_code = 200
    /\ last.response.healthy

\* --------------------------------------------------- claims C11 to C20
\* The calls of the last request to the backend's generation path.
GenerateCalls == {i \in 1..Len(last.calls) : last.calls[i].path = "/generate"}

\* The forward call of the last request failed in transport with this error.
ForwardFailed(err) ==
    /\ IsDispatch \/ IsStream
    /\ \E i \in GenerateCalls : last.calls[i].beh.err = err

\* C11: a dispatch makes at most one forwarding attempt to the generation path; a
\* failed or timed-out forward is surfaced at once as a classified failure and is
\* not retried, whatever max_retries is.
C11_AtMostOneForward ==
    (IsDispatch \/ IsStream) =>
        /\ Cardinality(GenerateCalls) <= 1
        /\ \A e \in {"timeout", "request_error", "exception"} :
               ForwardFailed(e) =>
                   /\ last.outcome.tag = "HTTPException"
                   /\ last.outcome.status_code \in {504, 503, 500}

C11_Witness ==
    /\ IsDispatch
    /\ max_retries = 3
    /\ ForwardFailed("timeout")
    /\ Cardinality(GenerateCalls) = 1
    /\ last.outcome.status_code = 504

\* The lifespan context is over: it ran to its end, or an exception left it.
LifespanOver ==
    phase \in {"stopped", "startup_failed", "startup_cancelled", "aborted"}

\* C12: in every execution in which the shared HTTP client was acquired, it has been
\* released once the process shuts down, however the shutdown was triggered (normal
\* shutdown, an error in settings loading or startup validation after the client was
\* created, or an error delivered while serving).
C12_ClientReleasedAtShutdown ==
    (LifespanOver /\ http_client # "None") => http_client = "closed"

\* The handlers of GET /health/ that are suspended after their call of
\* increment_request_count.
CountedInFlight ==
    BagCardinality([t \in {x \in BagToSet(tasks) :
                              x.handler = "health_check" /\ x.stage # "depends"}
                       |-> CopiesIn(t, tasks)])

\* C13: request_count is updated atomically: whatever the interleaving of the
\* handlers that call increment_request_count, the counter is exactly the number of
\* requests that have made the call, those that have ended and those that are
\* still suspended after it (no lost update).
C13_NoLostUpdate == request_counter = ended + CountedInFlight

C13_Witness ==
    /\ CountedInFlight = 2
    /\ \A t \in Suspended : t.handler = "health_check" /\ t.awaiting
    /\ ended = 0
    /\ request_counter = 2

\* The last request was a dispatch whose forward call the backend answered.
ForwardAnswered ==
    /\ IsDispatch
    /\ Len(last.calls) = 1
    /\ last.calls[1].beh.err = "none"

\* C14: for every answer of the backend to the forward call with a 2xx status and a
\* parseable payload (here: one that is a complete TTS result), dispatch returns
\* Success carrying the payload as the backend returned it.
C14_SuccessOnEvery2xx ==
    (ForwardAnswered /\ last.calls[1].beh.status \in 200..299
                     /\ TTSResponseOk(last.calls[1].beh.body)) =>
        /\ last.outcome.tag = "TTSResponse"
        /\ last.outcome.arg.text = last.calls[1].beh.body.val

\* C15 as stated: whenever the backend answers the forward call with 422, dispatch
\* ends in a 422 ValidationError failure whose message is the backend's detail.
C15_Every422CarriesDetail ==
    (ForwardAnswered /\ last.calls[1].beh.status = 422) =>
        /\ last.outcome.tag = "HTTPException"
        /\ last.outcome.status_code = 422
        /\ last.outcome.arg.text = last.calls[1].beh.body.val

\* C15, amended: when the backend answers the forward call with 422 and a body that
\* parses as a JSON object, dispatch ends in a 422 ValidationError failure whose
\* message is "Model validation error: " followed by the body's detail, or by
\* "Validation error" when the body has no detail; when the body does not parse,
\* dispatch ends in an Internal failure (500).
C15_ValidationErrorFromParsedBody ==
    (ForwardAnswered /\ last.calls[1].beh.status = 422) =>
        LET body == last.calls[1].beh.body
        IN  /\ last.outcome.tag = "HTTPException"
            /\ JsonOk(body) =>
                   /\ last.outcome.status_code = 422
                   /\ last.outcome.msg = "Model validation error"
                   /\ last.outcome.arg.text =
                          IF body.form = "detail" THEN body.val ELSE "Validation error"
            /\ ~JsonOk(body) =>
                   /\ last.outcome.status_code = 500
                   /\ last.outcome.msg = "Internal server error"

C15_Witness ==
    /\ ForwardAnswered
    /\ last.calls[1].beh.status = 422
    /\ last.calls[1].beh.body.form = "detail"
    /\ last.outcome.status_code = 422
    /\ last.outcome.arg.text = "d1"

\* C16: a transport failure of the forward call is classified by its type: a timeout
\* ends the dispatch in Timeout (504), any other transport or connection error in
\* BackendUnavailable (503), and a timeout is never reported as BackendUnavailable.
C16_TransportFailureByType ==
    /\ ForwardFailed("timeout") =>
           /\ last.outcome.tag = "HTTPException"
           /\ last.outcome.status_code = 504
           /\ last.outcome.msg = "Model endpoint timeout"
           /\ ~BackendUnavailable(last.outcome)
    /\ ForwardFailed("request_error") =>
           /\ last.outcome.tag = "HTTPException"
           /\ last.outcome.status_code = 503
           /\ last.outcome.msg = "Cannot reach model endpoint"

C16_Witness ==
    /\ IsDispatch
    /\ ForwardFailed("timeout")
    /\ last.outcome.msg = "Model endpoint timeout"
    /\ last.outcome.arg.text = Url(last.model)

\* The outcome is a success: a TTS result or a byte stream.
Succeeded(o) == o.tag \in {"TTSResponse", "Response"}

\* C17: no failure escapes unclassified: every dispatch and every streaming
\* negotiation that does not succeed ends in one failure raised by the gateway's own
\* classification (InvalidModel, BackendUnavailable, Timeout, ValidationError,
\* BackendError or Internal), also when the streaming attempt itself times out or
\* cannot connect and when a 200 or 422 body does not parse.
C17_NoUnclassifiedFailure ==
    ((IsDispatch \/ IsStream) /\ ~Succeeded(last.outcome)) =>
        /\ last.outcome.tag = "HTTPException"
        /\ last.outcome.status_code >= 400

\* C18: in every per-backend health record the gateway produces (the map of the
\* aggregate, the detailed records of the models view, the single-model view),
\* healthy implies configured.
C18_HealthyImpliesConfigured ==
    /\ (last.op = "health_check" /\ last.outcome.tag # "Unhandled") =>
           \A i \in 1..Len(last.models) :
               last.models[i].healthy => Configured(last.models[i].model)
    /\ (last.op = "models_health_check" /\ last.outcome.tag # "Unhandled") =>
           \A i \in 1..Len(last.models) :
               /\ last.models[i].healthy => last.models[i].configured
               /\ last.models[i].configured <=> Configured(last.models[i].model)
    /\ IsSingle => (last.response.healthy => last.response.configured)

C18_Witness ==
    /\ last.op = "models_health_check"
    /\ last.outcome.tag # "Unhandled"
    /\ \E i \in 1..Len(last.models) :
           last.models[i].healthy /\ last.models[i].configured
    /\ \E i \in 1..Len(last.models) :
           ~last.models[i].healthy /\ ~last.models[i].configured

\* What a run must report for backend m, from nothing but the configuration and
\* the answers the backends gave to this run's probes.
ExpectedHealthy(m, behs) ==
    /\ Configured(m)
    /\ \E j \in 1..Len(behs) :
           behs[j].model = m /\ behs[j].beh.err = "none" /\ behs[j].beh.status = 200

ExpectedStatus(behs) ==
    IF \E m \in Registered : ExpectedHealthy(m, behs) THEN "healthy" ELSE "degraded"

\* C19: the shape of an aggregate health result (overall status, backend keys,
\* per-backend healthy values) is determined by the configuration and the backends'
\* states alone, so two runs with the same configuration and the same backend states
\* give the same shape, whatever requests ran before or in between; request_count
\* is no part of the shape.
C19_ShapeDependsOnBackendsOnly ==
    (last.op = "health_check" /\ last.outcome.tag # "Unhandled") =>
        /\ [i \in 1..Len(last.models) |-> last.models[i].model] = ModelOrder
        /\ \A i \in 1..Len(last.models) :
               last.models[i].healthy <=> ExpectedHealthy(last.models[i].model, last.behs)
        /\ last.status = ExpectedStatus(last.behs)

C19_Witness ==
    /\ last.op = "health_check"
    /\ last.outcome.tag # "Unhandled"
    /\ last.request_count = 2
    /\ Len(last.behs) = 2
    /\ last.behs[1].beh.status = 200
    /\ last.behs[2].beh.err = "timeout"
    /\ last.status = "healthy"

\* C20: when the streaming attempt succeeds, the caller receives a byte stream that
\* carries every chunk the backend produced, in the backend's order, up to the end
\* of the backend's stream.
C20_CallerReceivesBackendChunks ==
    (StreamAnswered /\ last.calls[1].beh.status \in 200..299) =>
        /\ last.outcome.tag = "Response"
        /\ last.outcome.status_code = 200
        /\ last.outcome.arg.text = last.calls[1].beh.body.raw

\* --------------------------------------------------- claims C21 to C30
\* C21: when the backend answers the forward call with a non-2xx status other than
\* 422, dispatch ends in a BackendError failure whose status is the backend's status
\* and whose message carries the backend's body (or "HTTP <status>" when the body
\* is empty).
C21_BackendErrorCarriesStatusAndBody ==
    (ForwardAnswered /\ last.calls[1].beh.status \notin 200..299
                     /\ last.calls[1].beh.status # 422) =>
        LET response == last.calls[1].beh
        IN  /\ last.outcome.tag = "HTTPException"
            /\ last.outcome.msg = "Model endpoint error"
            /\ last.outcome.status_code = response.status
            /\ response.body.raw # "" => last.outcome.arg = Arg(response.body.raw, 0)
            /\ response.body.raw = "" => last.outcome.arg = Arg("HTTP", response.status)

C21_Witness ==
    /\ ForwardAnswered
    /\ last.calls[1].beh.status = 500
    /\ last.calls[1].beh.body.raw = "oops"
    /\ last.outcome.status_code = 500
    /\ last.outcome.arg.text = "oops"

\* C22: the health prober returns true exactly when the backend answers the liveness
\* request with a 2xx status within the timeout: every 2xx status counts as healthy,
\* every other outcome as unhealthy.
C22_HealthyIffAny2xx ==
    (IsSingle /\ Len(last.response.probes) = 1 /\ last.response.tag # "Unhandled") =>
        LET beh == last.response.probes[1]
        IN  last.response.healthy <=> (beh.err = "none" /\ beh.status \in 200..299)

\* C23: a failure is classified once and keeps its kind: what forward_request raised
\* (504, 503, 500) and what the status classification raised (422, the backend's
\* status) is the outcome the caller gets, in a dispatch and in a streaming fallback;
\* the catch-all clause of generate_tts never turns it into Internal (500).
C23_FailureKeepsItsKind ==
    (IsDispatch \/ IsStream) =>
        \A i \in GenerateCalls :
            LET c == last.calls[i]
                fwd == forward_request(c.endpoint, c.payload, c.beh)
            IN  /\ fwd.raised => last.outcome = fwd.exc
                /\ (~fwd.raised /\ c.beh.status = 422 /\ JsonOk(c.beh.body)) =>
                       /\ last.outcome.status_code = 422
                       /\ last.outcome.msg = "Model validation error"
                /\ (~fwd.raised /\ c.beh.status \notin {200, 422}) =>
                       /\ last.outcome.status_code = c.beh.status
                       /\ last.outcome.msg = "Model endpoint error"

C23_Witness ==
    /\ IsStream
    /\ Len(last.calls) = 2
    /\ last.calls[2].beh.err = "request_error"
    /\ last.outcome.tag = "HTTPException"
    /\ last.outcome.status_code = 503
    /\ last.outcome.msg = "Cannot reach model endpoint"

\* C24: the payload sent to the backend is the request plus a "model" field equal
\* to the resolved model name, and in a streaming negotiation that falls back the
\* payload of the non-streaming call equals the payload of the streaming call.
C24_PayloadIsRequestPlusModel ==
    (IsDispatch \/ IsStream) =>
        /\ \A i \in 1..Len(last.calls) :
               /\ last.calls[i].payload.text = last.request
               /\ last.calls[i].payload.model = last.model
               /\ DOMAIN last.calls[i].payload = {"text", "model"}
        /\ Len(last.calls) = 2 => last.calls[2].payload = last.calls[1].payload

C24_Witness ==
    /\ IsStream
    /\ Len(last.calls) = 2
    /\ last.calls[1].path = "/generate/stream"
    /\ last.calls[2].path = "/generate"
    /\ last.calls[1].payload = [text |-> "Bye", model |-> "chatterbox"]
    /\ last.calls[2].payload = [text |-> "Bye", model |-> "chatterbox"]

\* C25: a dispatch or a streaming request that names an unknown or an unconfigured
\* model makes no call to any backend: the failure (400 or 503) is returned before
\* any forward or streaming call is issued.
C25_NoCallWithoutBackend ==
    ((IsDispatch \/ IsStream) /\ ~Configured(last.model)) =>
        /\ last.calls = <<>>
        /\ last.outcome.tag = "HTTPException"
        /\ last.outcome.status_code = IF last.model \in Registered THEN 503 ELSE 400

C25_Witness ==
    /\ IsStream
    /\ last.model = "kokkoro"
    /\ settings["kokkoro"] = ""
    /\ Configured("chatterbox")
    /\ last.calls = <<>>
    /\ last.outcome.status_code = 503

\* The calls of the last request to the backend's streaming path.
StreamCalls == {i \in 1..Len(last.calls) : last.calls[i].path = "/generate/stream"}

\* C26: one streaming negotiation issues at most one call to the streaming path and
\* at most one to the non-streaming generation path, and the non-streaming call is
\* issued only after the streaming call has returned status 404.
C26_FallbackOnlyAfter404 ==
    IsStream =>
        /\ Cardinality(StreamCalls) <= 1
        /\ Cardinality(GenerateCalls) <= 1
        /\ \A i \in GenerateCalls :
               /\ i = 2
               /\ 1 \in StreamCalls
               /\ last.calls[1].beh.err = "none"
               /\ last.calls[1].beh.status = 404

C26_Witness ==
    /\ IsStream
    /\ StreamCalls = {1}
    /\ GenerateCalls = {2}
    /\ last.calls[1].beh.status = 404
    /\ last.calls[2].beh.status = 500
    /\ last.outcome.status_code = 500

\* The last request was stopped by the dependency get_http_client.
IsRefused == last.op = "get_http_client"

\* C27: a request handler is never handed a closed HTTP client: get_http_client
\* hands out the shared client only between its creation and its close, and answers
\* 503 at every other time, before startup and after shutdown.
C27_NeverHandedClosedClient ==
    /\ (IsDispatch \/ IsStream) => last.client = "open"
    /\ IsRefused =>
           /\ last.client # "open"
           /\ last.outcome.status_code = 503

\* A step in which a request of this route comes back from the worker thread of
\* its dependency, so that its handler begins unless the dependency raised.
Began(h) ==
    \E t \in BagToSet(tasks) :
        /\ t.handler = h
        /\ t.stage = "depends"
        /\ CopiesIn(t, tasks') = CopiesIn(t, tasks) - 1

\* A step in which GET /health/quick is answered.
QuickAnswered ==
    tasks' = tasks /\ last' # last /\ last'.op = "quick_health_check"

\* C28: only the aggregate health query and the quick liveness query change
\* request_count, each by exactly +1; the detailed models query, the single-model
\* query and the stats query leave it unchanged, and nothing decreases or resets it.
C28_OnlyHealthAndQuickCount ==
    [][/\ request_counter' # request_counter =>
              /\ request_counter' = request_counter + 1
              /\ \/ Began("health_check")
                 \/ tasks' = tasks /\ last'.op = "quick_health_check"
       /\ (Began("health_check") /\ SettingsValid(settings)) =>
              request_counter' = request_counter + 1
       /\ QuickAnswered => request_counter' = request_counter + 1
       /\ Began("models_health_check") \/ Began("single_model_health_check") =>
              request_counter' = request_counter
       /\ BagCardinality(tasks') > BagCardinality(tasks) =>
              request_counter' = request_counter
       /\ (last' # last /\ last'.op \in {"models_health_check",
                                         "single_model_health_check",
                                         "service_stats"}) =>
              request_counter' = request_counter]_vars

C28_Witness ==
    /\ last.op = "service_stats"
    /\ last.total_requests = 2
    /\ request_counter = 2
    /\ \E t \in Suspended : t.handler = "models_health_check" /\ t.awaiting

\* The answers a backend call can get: any behaviour when the name leads to a
\* backend, none otherwise; a fallback call is made after a 404 only.
Answers(model_name, behaviours) ==
    IF Reaches(model_name) THEN behaviours ELSE {Unreached}

FallbackAnswers(sbeh) ==
    IF sbeh.err = "none" /\ sbeh.status = 404 THEN GenBehaviours ELSE {Unreached}

\* The outcomes dispatch and streaming can give for the name m under the current
\* settings, over every request and every answer of the backend.
DispatchOutcomes(m) ==
    { generate_tts(m, r, settings, b).outcome :
          r \in Texts, b \in Answers(m, GenBehaviours) }
    \cup UNION { { generate_tts_stream(m, r, settings, sb, b).outcome :
                      b \in FallbackAnswers(sb) } :
                  r \in Texts, sb \in Answers(m, StreamBehaviours) }

\* Dispatch or streaming rejects the name m as unknown.
DispatchRejectsUnknown(m) == \E o \in DispatchOutcomes(m) : InvalidModel(o)

\* Dispatch or streaming rejects m as unconfigured.
DispatchRejectsUnconfigured(m) ==
    \E o \in DispatchOutcomes(m) :
        o.msg \in {"Model is not configured, set the variable", "Model is not configured"}

\* C29: the registry is the same everywhere: a name is InvalidModel for dispatch and
\* streaming exactly when the single-model health query answers not-found, the keys
\* of health aggregation are the names dispatch accepts, and a model that a health
\* query reports healthy is never rejected by dispatch as unknown or unconfigured.
C29_OneRegistry ==
    /\ IsSingle =>
           /\ (last.response.status_code = 404) <=> DispatchRejectsUnknown(last.model)
           /\ last.response.healthy => ~DispatchRejectsUnconfigured(last.model)
    /\ IsAggregate =>
           LET keys == {last.models[i].model : i \in 1..Len(last.models)}
           IN  /\ keys = MODEL_ENDPOINTS
               /\ \A n \in Names : DispatchRejectsUnknown(n) <=> n \notin keys
               /\ \A i \in 1..Len(last.models) :
                      last.models[i].healthy =>
                          ~DispatchRejectsUnconfigured(last.models[i].model)

C29_Witness ==
    /\ IsSingle
    /\ last.model = "chatterbox"
    /\ last.response.healthy
    /\ settings["kokkoro"] = None
    /\ DispatchRejectsUnconfigured("kokkoro")
    /\ ~DispatchRejectsUnconfigured("chatterbox")
    /\ DispatchRejectsUnknown("unknownmodel")

\* The configured models, in the order validate_model_endpoints visits them.
ConfiguredInOrder ==
    LET IsConfigured(m) == Configured(m)
    IN  SelectSeq(ModelOrder, IsConfigured)

\* C30: startup validation never blocks serving: whatever the backends do,
\* validate_model_endpoints ends without raising, has probed each configured backend
\* exactly once and no unconfigured one, and the gateway then reaches the serving
\* state, in every startup that the server does not cancel.  The first three
\* conjuncts hold; the last fails on a backend that keeps its answer open.
C30_ValidationNeverBlocksServing ==
    /\ [](phase = "startup_failed" => ~SettingsValid(settings))
    /\ [](phase = "validating" =>
              /\ boot.idx \in 1..Len(ModelOrder)
              /\ boot.probed # <<>>
              /\ boot.probed = SubSeq(ConfiguredInOrder, 1, Len(boot.probed))
              /\ boot.probed[Len(boot.probed)] = ModelOrder[boot.idx])
    /\ [](phase = "serving" => boot.probed = ConfiguredInOrder)
    /\ [](phase # "startup_cancelled") =>
           ((phase = "validating") ~> (phase = "serving"))

====
